---------------------------- MODULE Spec2Model ----------------------------
(***************************************************************************)
(* Model of the air-quality dashboard: the composite pollution index of    *)
(* config/pollutants.py, and of app.py the city-label functions, the       *)
(* cleaning pipeline (load_data) with its cache, the filters and the       *)
(* export of a run of the page, and the classifications of a value.        *)
(*                                                                         *)
(* Numbers.  Python floats are modelled as exact rationals, records        *)
(* [n |-> numerator, d |-> denominator] kept in lowest terms with d > 0,   *)
(* so that numeric equality (Python ==, under which 0 == 0.0) is equality  *)
(* of records.  The binary rounding error of float arithmetic shows only   *)
(* where round(x, 1) meets an exact tie (x.x5): the float then lies just   *)
(* above or just below the tie and the code rounds either way, depending   *)
(* on the operands.  The variable tie_up is that direction, free in every  *)
(* behaviour; away from ties round(x, 1) is the nearest multiple of 1/10.  *)
(* The special floats nan, inf and -inf are the strings "nan", "inf" and   *)
(* "-inf"; None is the string "None".                                      *)
(***************************************************************************)
EXTENDS Integers, Sequences, FiniteSets, TLC

VARIABLES
    tie_up,               \* whether float error lifts an exact tie of round(x, 1)
    values_by_pollutant,  \* argument of calculate_pollution_index (a dict)
    index_pc,             \* "args" while the dict is built, "returned" after the call
    index,                \* the value returned (meaningful once index_pc = "returned")
    category,             \* get_index_category(index)["label"], likewise
    coord_str,            \* argument of parse_coords
    parse_pc,             \* "args" before parse_coords is called, "returned" after
    parsed,               \* the pair returned by parse_coords
    raw,                  \* the rows of qualite-de-lair-france.csv as read_csv gives them
    load_pc,              \* "file" before load_data is called; after the call
                          \* "loaded" (the body ran), "served" (from the cache)
                          \* or "raised"
    current_year,         \* datetime.now().year at the call of load_data
    df,                   \* the cleaned dataset returned by load_data
    cache,                \* the entries st.cache_data holds for load_data
    page_pc,              \* how far the run of the page is after load_data
    df_filtered,          \* the filtered dataset of the run (lines 428-448)
    filters,              \* the values the widgets of the sidebar returned
    download,             \* the data handed to st.download_button
    risk_args,            \* a mean value and its pollutant (lines 878-943)
    risk_pc,              \* "args" before the levels are computed, "returned" after
    risk_out,             \* the levels, the badge, the colour and the alerts
    city_label,           \* argument of is_valid_city and normalize_city
    city_pc,              \* "args" before the two are called, "returned" after
    city_valid,           \* the value returned by is_valid_city
    city_normalized       \* the value returned by normalize_city

vars == <<tie_up, values_by_pollutant, index_pc, index, category,
          coord_str, parse_pc, parsed,
          raw, load_pc, current_year, df, cache, page_pc, df_filtered,
          filters, download, risk_args, risk_pc, risk_out,
          city_label, city_pc, city_valid, city_normalized>>

index_vars == <<tie_up, values_by_pollutant, index_pc, index, category>>
parse_vars == <<coord_str, parse_pc, parsed>>
load_vars == <<raw, load_pc, current_year, df, cache>>
page_vars == <<page_pc, df_filtered, filters, download>>
risk_vars == <<risk_args, risk_pc, risk_out>>
city_vars == <<city_label, city_pc, city_valid, city_normalized>>

----------------------------------------------------------------------------
(* Exact rational arithmetic standing for Python float arithmetic.         *)

Abs(x) == IF x < 0 THEN -x ELSE x

RECURSIVE Gcd(_, _)
Gcd(a, b) == IF b = 0 THEN a ELSE Gcd(b, a % b)

\* The rational n/d (d # 0) in lowest terms with a positive denominator.
Rat(n, d) ==
    LET g == Gcd(Abs(n), Abs(d))
        s == IF d < 0 THEN -1 ELSE 1
    IN  [n |-> s * (n \div g), d |-> s * (d \div g)]

Num(i) == [n |-> i, d |-> 1]

RatAdd(x, y) == Rat(x.n * y.d + y.n * x.d, x.d * y.d)
RatMul(x, y) == Rat(x.n * y.n, x.d * y.d)
RatDiv(x, y) == Rat(x.n * y.d, x.d * y.n)
RatLess(x, y) == x.n * y.d < y.n * x.d
RatLeq(x, y) == x.n * y.d <= y.n * x.d

\* Python's min(a, b): b when b < a, otherwise a.
PyMin(a, b) == IF RatLess(b, a) THEN b ELSE a

\* Python's round(x, 1) of the float computed for x: the nearest multiple of
\* 1/10, and at an exact tie the neighbour that tie_up selects.
Round1(x) ==
    LET t == 10 * x.n
        q == t \div x.d
        r == t % x.d
        up == \/ 2 * r > x.d
              \/ (2 * r = x.d /\ tie_up)
    IN  Rat(IF up THEN q + 1 ELSE q, 10)

----------------------------------------------------------------------------
(* Python values of a cell or a coordinate.  A float is a record           *)
(* [kind, val]: kind "finite" with val the rational, or kind "nan", "inf", *)
(* "-inf"; None has kind "None".  A str is a sequence of symbols: the      *)
(* one-character strings, and the words "nan" and "inf" taken whole.       *)

Finite(x) == [kind |-> "finite", val |-> x]
Special(k) == [kind |-> k, val |-> Num(0)]
None == Special("None")

Str(chars) == [type |-> "str", chars |-> chars]
\* A cell that pandas read as a float (a missing cell is the float nan).
NotAStr == [type |-> "float", chars |-> <<>>]

DigitValue ==
    ("0" :> 0) @@ ("1" :> 1) @@ ("2" :> 2) @@ ("3" :> 3) @@ ("4" :> 4) @@
    ("5" :> 5) @@ ("6" :> 6) @@ ("7" :> 7) @@ ("8" :> 8) @@ ("9" :> 9)

IsDigit(c) == c \in DOMAIN DigitValue

RECURSIVE lstrip(_)
lstrip(s) == IF s # <<>> /\ Head(s) = " " THEN lstrip(Tail(s)) ELSE s

RECURSIVE rstrip(_)
rstrip(s) ==
    IF s # <<>> /\ s[Len(s)] = " " THEN rstrip(SubSeq(s, 1, Len(s) - 1)) ELSE s

\* str.strip()
strip(s) == rstrip(lstrip(s))

\* str.split(sep): the parts between the occurrences of sep, at least one.
RECURSIVE split(_, _)
split(s, sep) ==
    IF \A i \in DOMAIN s : s[i] # sep
    THEN <<s>>
    ELSE LET i == CHOOSE j \in DOMAIN s :
                      s[j] = sep /\ \A k \in 1..(j - 1) : s[k] # sep
         IN  <<SubSeq(s, 1, i - 1)>> \o split(SubSeq(s, i + 1, Len(s)), sep)

RECURSIVE Pow10(_)
Pow10(k) == IF k = 0 THEN 1 ELSE 10 * Pow10(k - 1)

\* The integer written by the digits of s, its other symbols skipped.
RECURSIVE DigitsValue(_)
DigitsValue(s) ==
    IF s = <<>> THEN 0
    ELSE LET c == s[Len(s)]
             rest == DigitsValue(SubSeq(s, 1, Len(s) - 1))
         IN  IF IsDigit(c) THEN 10 * rest + DigitValue[c] ELSE rest

\* float(s) reads s without the surrounding blanks and without its sign.
Unsigned(s) ==
    LET t == strip(s)
    IN  IF t # <<>> /\ Head(t) \in {"-", "+"} THEN Tail(t) ELSE t

Negative(s) == LET t == strip(s) IN t # <<>> /\ Head(t) = "-"

\* float(s) does not raise ValueError: s is a decimal numeral (digits with
\* at most one point and at least one digit), "nan" or "inf", signed or not.
\* Exponents, underscores and the spelling "infinity" are not among the
\* symbols tried.
float_accepts(s) ==
    LET b == Unsigned(s)
    IN  \/ b \in {<<"nan">>, <<"inf">>}
        \/ /\ \A i \in DOMAIN b : IsDigit(b[i]) \/ b[i] = "."
           /\ \E i \in DOMAIN b : IsDigit(b[i])
           /\ Cardinality({i \in DOMAIN b : b[i] = "."}) <= 1

\* float(s) for an s that float accepts.
float(s) ==
    LET b == Unsigned(s)
        sign == IF Negative(s) THEN -1 ELSE 1
    IN  IF b = <<"nan">> THEN Special("nan")
        ELSE IF b = <<"inf">> THEN Special(IF Negative(s) THEN "-inf" ELSE "inf")
        ELSE LET point == {i \in DOMAIN b : b[i] = "."}
                 decimals == IF point = {} THEN 0
                             ELSE Len(b) - (CHOOSE i \in point : TRUE)
             IN  Finite(Rat(sign * DigitsValue(b), Pow10(decimals)))

----------------------------------------------------------------------------
(* config/pollutants.py: configuration constants and the reference table.  *)

MAX_NORMALIZED_SCORE == 150
INDEX_MODERATE_THRESHOLD == 50
INDEX_HIGH_THRESHOLD == 100

\* The weights 1.5, 1.2, ... are the exact rationals 15/10, 12/10, ...
POLLUTANT_THRESHOLDS ==
    ("PM2.5" :> [good |-> Num(15),   moderate |-> Num(25),    weight |-> Rat(15, 10)]) @@
    ("PM10"  :> [good |-> Num(45),   moderate |-> Num(75),    weight |-> Rat(12, 10)]) @@
    ("NO2"   :> [good |-> Num(25),   moderate |-> Num(50),    weight |-> Rat(13, 10)]) @@
    ("O3"    :> [good |-> Num(100),  moderate |-> Num(180),   weight |-> Rat(10, 10)]) @@
    ("SO2"   :> [good |-> Num(40),   moderate |-> Num(100),   weight |-> Rat(8, 10)]) @@
    ("CO"    :> [good |-> Num(4000), moderate |-> Num(10000), weight |-> Rat(5, 10)]) @@
    ("NO"    :> [good |-> Num(25),   moderate |-> Num(50),    weight |-> Rat(6, 10)])

----------------------------------------------------------------------------
(* calculate_pollution_index.  A dict is a function whose DOMAIN is the    *)
(* set of its keys; the empty dict is the function with the empty domain.  *)

\* Faulty variant of normalized_score: the clamp at MAX_NORMALIZED_SCORE
\* forgotten.
normalized_score_unclamped(value, moderate) ==
    RatMul(RatDiv(value, moderate), Num(100))

\* Line 94: min((value / moderate) * 100, MAX_NORMALIZED_SCORE).
normalized_score(value, moderate) ==
    PyMin(RatMul(RatDiv(value, moderate), Num(100)), Num(MAX_NORMALIZED_SCORE))

\* Line 88: the test that lets an item of the dict contribute.
in_thresholds(pollutant) == pollutant \in DOMAIN POLLUTANT_THRESHOLDS

\* Faulty variant of accumulate: a pollutant the table lacks is scored against the
\* default thresholds of get_color_for_value (moderate 50) with weight 1.0
\* instead of being skipped.
RECURSIVE accumulate_with_default(_, _)
accumulate_with_default(m, keys) ==
    IF keys = {}
    THEN [total_weighted_score |-> Num(0), total_weight |-> Num(0)]
    ELSE LET pollutant == CHOOSE k \in keys : TRUE
             acc == accumulate_with_default(m, keys \ {pollutant})
             thresholds == IF in_thresholds(pollutant)
                           THEN POLLUTANT_THRESHOLDS[pollutant]
                           ELSE [moderate |-> Num(50), weight |-> Num(1)]
             score == normalized_score(m[pollutant], thresholds.moderate)
         IN  [total_weighted_score |->
                  RatAdd(acc.total_weighted_score, RatMul(score, thresholds.weight)),
              total_weight |-> RatAdd(acc.total_weight, thresholds.weight)]

\* Lines 84-97: the loop over the items, carrying the two accumulators.
RECURSIVE accumulate(_, _)
accumulate(m, keys) ==
    IF keys = {}
    THEN [total_weighted_score |-> Num(0), total_weight |-> Num(0)]
    ELSE LET pollutant == CHOOSE k \in keys : TRUE
             acc == accumulate(m, keys \ {pollutant})
         IN  IF in_thresholds(pollutant)
             THEN LET thresholds == POLLUTANT_THRESHOLDS[pollutant]
                      score == normalized_score(m[pollutant], thresholds.moderate)
                  IN  [total_weighted_score |->
                           RatAdd(acc.total_weighted_score,
                                  RatMul(score, thresholds.weight)),
                       total_weight |-> RatAdd(acc.total_weight, thresholds.weight)]
             ELSE acc

\* Lines 99-102: the value returned once the loop has run.
index_of_totals(acc) ==
    IF acc.total_weight = Num(0)
    THEN Num(0)
    ELSE Round1(RatDiv(acc.total_weighted_score, acc.total_weight))

calculate_pollution_index(m) ==
    IF DOMAIN m = {}
    THEN Num(0)
    ELSE index_of_totals(accumulate(m, DOMAIN m))

\* Faulty variant of get_index_category: the two comparisons made inclusive.
get_index_category_inclusive(index_value) ==
    IF RatLeq(index_value, Num(INDEX_MODERATE_THRESHOLD)) THEN "Bon"
    ELSE IF RatLeq(index_value, Num(INDEX_HIGH_THRESHOLD)) THEN "Modere"
    ELSE "Eleve"

\* get_index_category(index_value)["label"]; "Modere" and "Eleve" stand for
\* the labels written with accents in the source.
get_index_category(index_value) ==
    IF RatLess(index_value, Num(INDEX_MODERATE_THRESHOLD)) THEN "Bon"
    ELSE IF RatLess(index_value, Num(INDEX_HIGH_THRESHOLD)) THEN "Modere"
    ELSE "Eleve"

----------------------------------------------------------------------------
(* app.py, load_data.parse_coords (lines 62-69).                           *)

\* Faulty variant of parse_coords_of_parts: the two parts returned in the
\* other order.
parse_coords_of_parts_swapped(parts) ==
    IF ~float_accepts(strip(parts[1])) THEN <<None, None>>
    ELSE IF Len(parts) < 2 THEN <<None, None>>
    ELSE IF ~float_accepts(strip(parts[2])) THEN <<None, None>>
    ELSE <<float(strip(parts[2])), float(strip(parts[1]))>>

\* Lines 65-69: the two conversions in the order the code makes them, each
\* exception (ValueError of float, IndexError of parts[1]) caught.
parse_coords_of_parts(parts) ==
    IF ~float_accepts(strip(parts[1])) THEN <<None, None>>
    ELSE IF Len(parts) < 2 THEN <<None, None>>
    ELSE IF ~float_accepts(strip(parts[2])) THEN <<None, None>>
    ELSE <<float(strip(parts[1])), float(strip(parts[2]))>>

\* A value that is not a str has no split: AttributeError, caught.
parse_coords(x) ==
    IF x.type # "str" THEN <<None, None>>
    ELSE parse_coords_of_parts(split(x.chars, ","))

----------------------------------------------------------------------------
(* app.py: normalize_city (lines 30-40) and is_valid_city (lines 43-52).   *)
(* A label is a str (a sequence of characters) or the float nan of a       *)
(* missing cell, for which pd.isna is true.                                *)

isna(x) == x.type # "str"

StartsWith(s, prefix) ==
    Len(s) >= Len(prefix) /\ SubSeq(s, 1, Len(prefix)) = prefix

\* sub in s
Contains(s, sub) ==
    \E i \in 0..(Len(s) - Len(sub)) : SubSeq(s, i + 1, i + Len(sub)) = sub

UpperOf ==
    ("a" :> "A") @@ ("b" :> "B") @@ ("c" :> "C") @@ ("d" :> "D") @@ ("e" :> "E") @@
    ("f" :> "F") @@ ("g" :> "G") @@ ("h" :> "H") @@ ("i" :> "I") @@ ("j" :> "J") @@
    ("k" :> "K") @@ ("l" :> "L") @@ ("m" :> "M") @@ ("n" :> "N") @@ ("o" :> "O") @@
    ("p" :> "P") @@ ("q" :> "Q") @@ ("r" :> "R") @@ ("s" :> "S") @@ ("t" :> "T") @@
    ("u" :> "U") @@ ("v" :> "V") @@ ("w" :> "W") @@ ("x" :> "X") @@ ("y" :> "Y") @@
    ("z" :> "Z")

\* str.upper()
upper(s) == [i \in DOMAIN s |-> IF s[i] \in DOMAIN UpperOf THEN UpperOf[s[i]] ELSE s[i]]

PARIS == <<"P", "A", "R", "I", "S">>
MARSEILLE == <<"M", "A", "R", "S", "E", "I", "L", "L", "E">>
LYON == <<"L", "Y", "O", "N">>
ARRONDISSEMENT ==
    <<"A", "R", "R", "O", "N", "D", "I", "S", "S", "E", "M", "E", "N", "T">>

\* Faulty variant of collapses_to: the root anywhere in the label is enough.
collapses_to_substring(city_upper, root) == Contains(city_upper, root)

\* Lines 34, 36, 38: the test made for one root name.
collapses_to(city_upper, root) ==
    /\ Contains(city_upper, root)
    /\ \/ Contains(city_upper, ARRONDISSEMENT)
       \/ StartsWith(city_upper, root \o <<" ">>)

normalize_city(city) ==
    IF isna(city) THEN city
    ELSE LET city_upper == upper(city.chars)
         IN  IF collapses_to(city_upper, PARIS) THEN Str(PARIS)
             ELSE IF collapses_to(city_upper, MARSEILLE) THEN Str(MARSEILLE)
             ELSE IF collapses_to(city_upper, LYON) THEN Str(LYON)
             ELSE city

IsUpperLetter(c) == \E k \in DOMAIN UpperOf : UpperOf[k] = c

\* Faulty variant of is_valid_city: any two capital letters before the digit.
is_valid_city_any_prefix(city) ==
    IF isna(city) \/ city = Str(<<>>) THEN FALSE
    ELSE IF /\ Len(city.chars) > 2
            /\ IsUpperLetter(city.chars[1]) /\ IsUpperLetter(city.chars[2])
            /\ IsDigit(city.chars[3]) THEN FALSE
    ELSE IF StartsWith(city.chars, <<"A", "T", "M", "O">>) THEN FALSE
    ELSE IF Contains(city.chars, <<"N", "E", "T", "-">>) THEN FALSE
    ELSE TRUE

is_valid_city(city) ==
    IF isna(city) \/ city = Str(<<>>) THEN FALSE
    ELSE IF /\ Len(city.chars) > 2
            /\ StartsWith(city.chars, <<"F", "R">>)
            /\ IsDigit(city.chars[3]) THEN FALSE
    ELSE IF StartsWith(city.chars, <<"A", "T", "M", "O">>) THEN FALSE
    ELSE IF Contains(city.chars, <<"N", "E", "T", "-">>) THEN FALSE
    ELSE TRUE

----------------------------------------------------------------------------
(* app.py: load_data (lines 58-98).  The dataframe is the sequence of its  *)
(* rows, a row a record of its columns.  A raw row has the columns         *)
(* Coordinates, Pollutant, Value, City, Location and Last Updated (here    *)
(* LastUpdated).  A cell of the Value column is a float, the missing cell  *)
(* being nan, or a text that read_csv could not read as a number: one such *)
(* cell makes the column a column of str, its missing cells staying nan.   *)
(* A timestamp cell is [valid, year]: pd.to_datetime(errors="coerce")      *)
(* gives the timestamp of a valid cell and NaT for any other.              *)
(* The call load_data() goes through st.cache_data, which keeps one entry  *)
(* per function and arguments: load_data has no argument, so cache is      *)
(* either empty or the one dataset stored by the first call that returned. *)

RECENT_DATA_YEARS_BACK == 1

air_pollutants == {"NO2", "O3", "PM10", "PM2.5", "SO2", "NO", "CO"}

NaT == [valid |-> FALSE, year |-> 0]

\* The year of the clock while the checks of the pure functions run.
ThisYear == 2026

\* Comparisons of a float column with a number: false for nan.
FloatGeq(x, bound) ==
    \/ x.kind = "inf"
    \/ x.kind = "finite" /\ RatLeq(bound, x.val)

FloatLess(x, bound) ==
    \/ x.kind = "-inf"
    \/ x.kind = "finite" /\ RatLess(x.val, bound)

\* A cell of the Value column that is not a number.
Text == [kind |-> "str", val |-> Num(0)]

\* What dropna and fillna take for missing: None and nan, not the infinities.
is_missing(x) == x.kind \in {"None", "nan"}

\* Line 60: read_csv labels the rows 0, 1, ... (the index of the dataframe);
\* a row keeps its label through every later step.
read_csv(rows) == [i \in DOMAIN rows |-> rows[i] @@ [Index |-> i - 1]]

\* Lines 71-73: the columns Latitude and Longitude.
add_coords(row) ==
    LET pair == parse_coords(row.Coordinates)
    IN  row @@ [Latitude |-> pair[1], Longitude |-> pair[2]]

\* Lines 75-78: Last Updated converted, Date and Year taken from it (Month,
\* taken the same way, is left out); the year of NaT is nan.
add_dates(row) ==
    LET ts == IF row.LastUpdated.valid THEN row.LastUpdated ELSE NaT
    IN  [row EXCEPT !.LastUpdated = ts] @@
        [Date |-> ts,
         Year |-> IF ts.valid THEN Finite(Num(ts.year)) ELSE Special("nan")]

\* Line 81
known_pollutant(row) == row.Pollutant \in air_pollutants

\* Faulty variant of value_in_range: the upper bound made inclusive.
value_in_range_inclusive(row) ==
    /\ FloatGeq(row.Value, Num(0))
    /\ FloatLess(row.Value, Num(1000)) \/ row.Value = Finite(Num(1000))

\* Line 83
value_in_range(row) ==
    FloatGeq(row.Value, Num(0)) /\ FloatLess(row.Value, Num(1000))

\* Line 85: dropna(subset=["Latitude", "Longitude", "Value"])
has_required_fields(row) ==
    /\ ~is_missing(row.Latitude)
    /\ ~is_missing(row.Longitude)
    /\ ~is_missing(row.Value)

\* Faulty variant of fill_city: the missing city is left missing.
fill_city_skipped(row) == row

\* Line 87
fill_city(row) ==
    [row EXCEPT !.City = IF isna(row.City) THEN row.Location ELSE row.City]

\* Line 89
valid_city(row) == is_valid_city(row.City)

\* Line 91
add_city_normalized(row) == row @@ [City_Normalized |-> normalize_city(row.City)]

\* Faulty variant of add_recency: the year at the limit is not recent.
add_recency_strict(row, year_now) ==
    row @@
    [Is_Recent |-> /\ FloatGeq(row.Year, Num(year_now - RECENT_DATA_YEARS_BACK))
                   /\ row.Year # Finite(Num(year_now - RECENT_DATA_YEARS_BACK)),
     Data_Age |-> IF row.Year.kind = "finite"
                  THEN Finite(RatAdd(Num(year_now), RatMul(Num(-1), row.Year.val)))
                  ELSE Special("nan")]

\* Lines 94-96: comparing or subtracting the nan year gives False and nan.
add_recency(row, year_now) ==
    row @@
    [Is_Recent |-> FloatGeq(row.Year, Num(year_now - RECENT_DATA_YEARS_BACK)),
     Data_Age |-> IF row.Year.kind = "finite"
                  THEN Finite(RatAdd(Num(year_now), RatMul(Num(-1), row.Year.val)))
                  ELSE Special("nan")]

\* Line 71: the two columns are assigned from the result of Series.apply,
\* which for a frame without rows is an empty Series and not a frame of two
\* columns: ValueError (columns must be same length as key).
coords_assignment_raises(rows) == rows = <<>>

\* Line 83: in a Value column of str the comparison df["Value"] >= 0 meets a
\* str once a row with a value is left after line 81: TypeError.
value_filter_raises(rows) ==
    /\ \E i \in DOMAIN rows : rows[i].Value = Text
    /\ \E i \in DOMAIN rows :
           known_pollutant(rows[i]) /\ rows[i].Value.kind # "nan"

load_data_raises(rows) ==
    coords_assignment_raises(rows) \/ value_filter_raises(rows)

\* Faulty variant of load_data: line 89 left out.
load_data_unvalidated(rows, year_now) ==
    LET read == read_csv(rows)
        located == [i \in DOMAIN read |-> add_coords(read[i])]
        dated == [i \in DOMAIN located |-> add_dates(located[i])]
        known == SelectSeq(dated, known_pollutant)
        ranged == SelectSeq(known, value_in_range)
        complete == SelectSeq(ranged, has_required_fields)
        filled == [i \in DOMAIN complete |-> fill_city(complete[i])]
        normalized == [i \in DOMAIN filled |-> add_city_normalized(filled[i])]
    IN  [i \in DOMAIN normalized |-> add_recency(normalized[i], year_now)]

\* Faulty variant of load_data: line 89 moved before line 87.
load_data_validated_first(rows, year_now) ==
    LET read == read_csv(rows)
        located == [i \in DOMAIN read |-> add_coords(read[i])]
        dated == [i \in DOMAIN located |-> add_dates(located[i])]
        known == SelectSeq(dated, known_pollutant)
        ranged == SelectSeq(known, value_in_range)
        complete == SelectSeq(ranged, has_required_fields)
        valid == SelectSeq(complete, valid_city)
        filled == [i \in DOMAIN valid |-> fill_city(valid[i])]
        normalized == [i \in DOMAIN filled |-> add_city_normalized(filled[i])]
    IN  [i \in DOMAIN normalized |-> add_recency(normalized[i], year_now)]

\* The body of load_data where it does not raise.
load_data(rows, year_now) ==
    LET read == read_csv(rows)
        located == [i \in DOMAIN read |-> add_coords(read[i])]
        dated == [i \in DOMAIN located |-> add_dates(located[i])]
        known == SelectSeq(dated, known_pollutant)
        ranged == SelectSeq(known, value_in_range)
        complete == SelectSeq(ranged, has_required_fields)
        filled == [i \in DOMAIN complete |-> fill_city(complete[i])]
        valid == SelectSeq(filled, valid_city)
        normalized == [i \in DOMAIN valid |-> add_city_normalized(valid[i])]
    IN  [i \in DOMAIN normalized |-> add_recency(normalized[i], year_now)]

----------------------------------------------------------------------------
(* app.py: the run of the page after load_data (lines 206-1080).  A date   *)
(* is the timestamp record of its row and dates compare by their years;    *)
(* the accents of the labels of the radio are left out.                    *)

\* config/pollutants.py, lines 30-33
MAJOR_CITIES ==
    { Str(PARIS), Str(LYON), Str(MARSEILLE),
      Str(<<"T", "O", "U", "L", "O", "U", "S", "E">>),
      Str(<<"N", "I", "C", "E">>),
      Str(<<"N", "A", "N", "T", "E", "S">>),
      Str(<<"S", "T", "R", "A", "S", "B", "O", "U", "R", "G">>),
      Str(<<"M", "O", "N", "T", "P", "E", "L", "L", "I", "E", "R">>),
      Str(<<"B", "O", "R", "D", "E", "A", "U", "X">>),
      Str(<<"L", "I", "L", "L", "E">>) }

\* Line 215: the years the label of the second option of the radio names.
RecentLabelYears == {2024, 2025}

\* Lines 212-216: the options of the radio.
data_modes == {"Toutes", "Recentes (2024-2025)", "Historiques (<2024)"}

\* Line 389
all_pollutants(d) == {d[i].Pollutant : i \in DOMAIN d}

\* Line 393
default_pollutants == {"NO2", "PM10", "PM2.5"}

\* Lines 390-394: st.multiselect raises StreamlitAPIException when a default
\* value is not among the options.
multiselect_raises(d) == ~(default_pollutants \subseteq all_pollutants(d))

\* Lines 397-400
available_cities(d, show_metropoles_only) ==
    LET cities == {d[i].City_Normalized : i \in DOMAIN d}
        present == {c \in cities : ~isna(c)}
    IN  IF show_metropoles_only THEN present \cap MAJOR_CITIES ELSE present

\* Lines 415-425: the ranges st.date_input can return, a pair of dates
\* between the first and the last of the dataset or, while the second date
\* is not picked yet, a single date; None (here the empty tuple) when the
\* dataset has no date.
date_ranges(d) ==
    LET years == {d[i].Date.year : i \in {k \in DOMAIN d : d[k].Date.valid}}
    IN  IF years = {} THEN {<<>>}
        ELSE {<<lo>> : lo \in years}
             \cup {pair \in years \X years : pair[1] <= pair[2]}

\* Lines 428-448
apply_filters(d, data_mode, show_metropoles_only, selected_pollutants, selected_cities, date_range) ==
    LET recent(row) == row.Is_Recent = TRUE
        historical(row) == row.Is_Recent = FALSE
        metropole(row) == row.City_Normalized \in MAJOR_CITIES
        pollutant_selected(row) == row.Pollutant \in selected_pollutants
        city_selected(row) == row.City_Normalized \in selected_cities
        in_range(row) ==
            /\ row.Date.valid
            /\ row.Date.year >= date_range[1]
            /\ row.Date.year <= date_range[2]
        copy == d
        by_mode == IF data_mode = "Recentes (2024-2025)"
                       THEN SelectSeq(copy, recent)
                   ELSE IF data_mode = "Historiques (<2024)"
                       THEN SelectSeq(copy, historical)
                   ELSE copy
        by_metropole == IF show_metropoles_only
                        THEN SelectSeq(by_mode, metropole) ELSE by_mode
        by_pollutant == IF selected_pollutants # {}
                        THEN SelectSeq(by_metropole, pollutant_selected)
                        ELSE by_metropole
        by_city == IF selected_cities # {}
                   THEN SelectSeq(by_pollutant, city_selected) ELSE by_pollutant
    IN  IF Len(date_range) = 2 THEN SelectSeq(by_city, in_range) ELSE by_city

\* Faulty variant of bound_to_df: the filters applied to df itself.
bound_to_df_in_place(d, filtered) == filtered

\* Lines 428-448: the filters start from df.copy() and each one binds
\* df_filtered to a new frame; the frame bound to df is never written.
bound_to_df(d, filtered) == d

\* The values of the widgets before the sidebar is built.
NoFilters ==
    [data_mode |-> "Toutes",
     show_metropoles_only |-> FALSE,
     selected_pollutants |-> {},
     selected_cities |-> {},
     date_range |-> <<>>]

\* Lines 428-448 under the values of the widgets.
filtered_by(d, f) ==
    apply_filters(d, f.data_mode, f.show_metropoles_only, f.selected_pollutants,
                  f.selected_cities, f.date_range)

\* A field of the export that holds nothing: to_csv writes nan, NaT and None
\* as the empty field.
EmptyField == [field |-> "empty"]

FloatColumns == {"Value", "Latitude", "Longitude", "Year", "Data_Age"}
TextColumns == {"Coordinates", "City", "Location", "City_Normalized"}
DateColumns == {"LastUpdated", "Date"}

csv_field(row, column) ==
    IF column \in FloatColumns
        THEN IF is_missing(row[column]) THEN EmptyField ELSE row[column]
    ELSE IF column \in TextColumns
        THEN IF isna(row[column]) THEN EmptyField ELSE row[column]
    ELSE IF column \in DateColumns
        THEN IF row[column].valid THEN row[column] ELSE EmptyField
    ELSE row[column]

\* Line 1077: to_csv(index=False) writes one line per row with the fields
\* of its columns and without the label of the row.
to_csv(d) ==
    [i \in DOMAIN d |->
        [column \in DOMAIN d[i] \ {"Index"} |-> csv_field(d[i], column)]]

----------------------------------------------------------------------------
(* app.py: the three-level classifications of a value (lines 101-118 and   *)
(* 881-893) and the alerts (lines 935-943).  The labels stand without      *)
(* their emoji, accents and markup.  A threshold is [val, below]: val the  *)
(* exact product and below whether its float lies just under val, which    *)
(* is so for 45 * 0.7 and 180 * 0.7 and for no other product of the table; *)
(* a value tried is never strictly between the float and val.              *)

\* config/pollutants.py, line 8: 0.7
SENSITIVE_POPULATION_FACTOR == Rat(7, 10)

\* Lines 102, 112, 882, 939: the thresholds of a pollutant the table lacks.
default_thresholds == [good |-> Num(25), moderate |-> Num(50)]

thresholds_of(pollutant) ==
    IF in_thresholds(pollutant) THEN POLLUTANT_THRESHOLDS[pollutant]
    ELSE default_thresholds

\* The thresholds whose float product with 0.7 is under the exact product.
RoundedDown == {Num(45), Num(180)}

\* Lines 884-886, 940-941: thresholds[...] * factor
scaled(threshold, sensitive) ==
    IF sensitive
    THEN [val |-> RatMul(threshold, SENSITIVE_POPULATION_FACTOR),
          below |-> threshold \in RoundedDown]
    ELSE [val |-> threshold, below |-> FALSE]

\* value < threshold and value > threshold, for a threshold as scaled gives it.
below_threshold(value, threshold) == RatLess(value, threshold.val)
above_threshold(value, threshold) ==
    RatLess(threshold.val, value) \/ (threshold.below /\ value = threshold.val)

\* Lines 101-108
get_color_for_value(value, pollutant) ==
    LET thresholds == thresholds_of(pollutant)
    IN  IF RatLess(value, thresholds.good) THEN "green"
        ELSE IF RatLess(value, thresholds.moderate) THEN "orange"
        ELSE "red"

\* Lines 111-118
get_quality_badge(value, pollutant) ==
    LET thresholds == thresholds_of(pollutant)
    IN  IF RatLess(value, thresholds.good) THEN "Bon"
        ELSE IF RatLess(value, thresholds.moderate) THEN "Modere"
        ELSE "Eleve"

\* Faulty variant of get_risk_level: the factor applied with the option off.
get_risk_level_swapped(value, pollutant, sensitive) ==
    LET thresholds == thresholds_of(pollutant)
        good_threshold == scaled(thresholds.good, ~sensitive)
        moderate_threshold == scaled(thresholds.moderate, ~sensitive)
    IN  IF below_threshold(value, good_threshold) THEN "Faible"
        ELSE IF below_threshold(value, moderate_threshold) THEN "Modere"
        ELSE "Eleve"

\* Lines 881-893
get_risk_level(value, pollutant, sensitive) ==
    LET thresholds == thresholds_of(pollutant)
        good_threshold == scaled(thresholds.good, sensitive)
        moderate_threshold == scaled(thresholds.moderate, sensitive)
    IN  IF below_threshold(value, good_threshold) THEN "Faible"
        ELSE IF below_threshold(value, moderate_threshold) THEN "Modere"
        ELSE "Eleve"

\* Line 935: the pollutants an alert is raised for.
alert_pollutants == {"PM2.5", "PM10", "NO2", "O3"}

\* Lines 935-943: whether the mean value of a pollutant raises its alert.
alert_raised(avg_value, pollutant, sensitive_population) ==
    /\ pollutant \in alert_pollutants
    /\ above_threshold(avg_value,
                       scaled(thresholds_of(pollutant).moderate, sensitive_population))

\* The arguments and the results of the risk levels before any is computed.
NoRiskArgs == [value |-> Num(0), pollutant |-> "PM2.5"]
NoRiskOut == <<>>

----------------------------------------------------------------------------
(* The index calculator driven over bounded inputs.                        *)

\* Most items a dict passed to calculate_pollution_index holds.
MaxItems == 3

\* Keys tried: the seven of the reference table and one that it lacks.
UnknownPollutants == {"C6H6"}
SampleKeys == DOMAIN POLLUTANT_THRESHOLDS \cup UnknownPollutants

\* Mean values tried: negative and fractional, zero, at the moderate
\* thresholds 25 and 50, far above every cap.
SampleValues ==
    {Rat(-25, 2), Num(0), Num(25), Num(50), Num(20000)}

EmptyDict == <<>>

InitIndex ==
    /\ tie_up \in BOOLEAN
    /\ values_by_pollutant = EmptyDict
    /\ index_pc = "args"
    /\ index = Num(0)
    /\ category = "Bon"
    /\ coord_str = NotAStr
    /\ parse_pc = "args"
    /\ parsed = <<None, None>>
    /\ raw = <<>>
    /\ load_pc = "file"
    /\ current_year = ThisYear
    /\ df = <<>>
    /\ cache = <<>>
    /\ page_pc = "start"
    /\ df_filtered = <<>>
    /\ filters = NoFilters
    /\ download = <<>>
    /\ risk_args = NoRiskArgs
    /\ risk_pc = "args"
    /\ risk_out = NoRiskOut
    /\ city_label = NotAStr
    /\ city_pc = "args"
    /\ city_valid = FALSE
    /\ city_normalized = NotAStr

\* The caller builds the dict: values_by_pollutant[pollutant] = value.
SetItem(pollutant, value) ==
    /\ index_pc = "args"
    /\ pollutant \notin DOMAIN values_by_pollutant
    /\ Cardinality(DOMAIN values_by_pollutant \cup {pollutant}) <= MaxItems
    /\ values_by_pollutant' =
           [k \in DOMAIN values_by_pollutant \cup {pollutant} |->
               IF k = pollutant THEN value ELSE values_by_pollutant[k]]
    /\ UNCHANGED <<tie_up, index_pc, index, category>>
    /\ UNCHANGED <<parse_vars, load_vars, page_vars, city_vars, risk_vars>>

\* idx = calculate_pollution_index(values_by_pollutant);
\* get_index_category(idx), as at lines 513-514 and 655-660 of app.py.
ComputeIndex ==
    /\ index_pc = "args"
    /\ index_pc' = "returned"
    /\ index' = calculate_pollution_index(values_by_pollutant)
    /\ category' = get_index_category(index')
    /\ UNCHANGED <<tie_up, values_by_pollutant>>
    /\ UNCHANGED <<parse_vars, load_vars, page_vars, city_vars, risk_vars>>

NextIndex ==
    \/ \E p \in SampleKeys, v \in SampleValues : SetItem(p, v)
    \/ ComputeIndex

SpecIndex == InitIndex /\ [][NextIndex]_vars

----------------------------------------------------------------------------
(* parse_coords driven over every string of bounded length.                *)

\* Longest coordinate string tried, in symbols.
MaxCoordLen == 5

\* Symbols of the strings tried: a digit, the point, the sign, the comma, the
\* blank and a letter.
CoordSymbols == {"4", ".", "-", ",", " ", "x"}

InitParse ==
    /\ coord_str = Str(<<>>)
    /\ parse_pc = "args"
    /\ parsed = <<None, None>>
    /\ tie_up = FALSE
    /\ values_by_pollutant = EmptyDict
    /\ index_pc = "args"
    /\ index = Num(0)
    /\ category = "Bon"
    /\ raw = <<>>
    /\ load_pc = "file"
    /\ current_year = ThisYear
    /\ df = <<>>
    /\ cache = <<>>
    /\ page_pc = "start"
    /\ df_filtered = <<>>
    /\ filters = NoFilters
    /\ download = <<>>
    /\ risk_args = NoRiskArgs
    /\ risk_pc = "args"
    /\ risk_out = NoRiskOut
    /\ city_label = NotAStr
    /\ city_pc = "args"
    /\ city_valid = FALSE
    /\ city_normalized = NotAStr

\* The cell of the Coordinates column is a str, one symbol longer.
AppendSymbol(c) ==
    /\ parse_pc = "args"
    /\ coord_str.type = "str"
    /\ Len(coord_str.chars) < MaxCoordLen
    /\ coord_str' = Str(Append(coord_str.chars, c))
    /\ UNCHANGED <<parse_pc, parsed>>
    /\ UNCHANGED <<index_vars, load_vars, page_vars, city_vars, risk_vars>>

\* The cell of the Coordinates column is missing or a number, not a str.
CellNotAStr ==
    /\ parse_pc = "args"
    /\ coord_str = Str(<<>>)
    /\ coord_str' = NotAStr
    /\ UNCHANGED <<parse_pc, parsed>>
    /\ UNCHANGED <<index_vars, load_vars, page_vars, city_vars, risk_vars>>

\* lat, lon = parse_coords(coord_str)
ParseCoords ==
    /\ parse_pc = "args"
    /\ parse_pc' = "returned"
    /\ parsed' = parse_coords(coord_str)
    /\ UNCHANGED coord_str
    /\ UNCHANGED <<index_vars, load_vars, page_vars, city_vars, risk_vars>>

NextParse ==
    \/ \E c \in CoordSymbols : AppendSymbol(c)
    \/ CellNotAStr
    \/ ParseCoords

SpecParse == InitParse /\ [][NextParse]_vars

----------------------------------------------------------------------------
(* is_valid_city and normalize_city driven over the labels put together    *)
(* from a few pieces, and over the missing label.                          *)

\* Most pieces of a label.
MaxPieces == 3

\* Pieces of the labels tried: the three root names, one of them in small
\* letters, the district word, the start of an unrelated place name, the
\* blank, a digit, a dash, and the letters of the station and network codes.
CityPieces ==
    { PARIS, MARSEILLE, LYON, <<"l", "y", "o", "n">>, ARRONDISSEMENT,
      <<"V", "I", "L", "L", "E">>, <<" ">>, <<"5">>, <<"-">>,
      <<"F", "R">>, <<"D", "E">>, <<"A", "T", "M", "O">>, <<"N", "E", "T">> }

RECURSIVE LabelsOf(_)
LabelsOf(n) ==
    IF n = 0 THEN {<<>>}
    ELSE LET shorter == LabelsOf(n - 1)
         IN  shorter \cup {l \o p : l \in shorter, p \in CityPieces}

InitCity ==
    /\ city_label \in {Str(l) : l \in LabelsOf(MaxPieces)} \cup {NotAStr}
    /\ city_pc = "args"
    /\ city_valid = FALSE
    /\ city_normalized = NotAStr
    /\ tie_up = FALSE
    /\ values_by_pollutant = EmptyDict
    /\ index_pc = "args"
    /\ index = Num(0)
    /\ category = "Bon"
    /\ coord_str = NotAStr
    /\ parse_pc = "args"
    /\ parsed = <<None, None>>
    /\ raw = <<>>
    /\ load_pc = "file"
    /\ current_year = ThisYear
    /\ df = <<>>
    /\ cache = <<>>
    /\ page_pc = "start"
    /\ df_filtered = <<>>
    /\ filters = NoFilters
    /\ download = <<>>
    /\ risk_args = NoRiskArgs
    /\ risk_pc = "args"
    /\ risk_out = NoRiskOut

\* is_valid_city(city), as line 89 applies it to a cell of the City column.
IsValidCity ==
    /\ city_pc = "args"
    /\ city_pc' = "validated"
    /\ city_valid' = is_valid_city(city_label)
    /\ UNCHANGED <<city_label, city_normalized>>
    /\ UNCHANGED <<index_vars, parse_vars, load_vars, page_vars, risk_vars>>

\* normalize_city(city), as line 91 applies it to a cell of the City column.
NormalizeCity ==
    /\ city_pc = "validated"
    /\ city_pc' = "returned"
    /\ city_normalized' = normalize_city(city_label)
    /\ UNCHANGED <<city_label, city_valid>>
    /\ UNCHANGED <<index_vars, parse_vars, load_vars, page_vars, risk_vars>>

NextCity ==
    \/ IsValidCity
    \/ NormalizeCity

SpecCity == InitCity /\ [][NextCity]_vars

----------------------------------------------------------------------------
(* load_data driven over bounded files, from the file with a header and no *)
(* row on.                                                                 *)

\* Most rows of the file.
MaxRows == 2

\* Years the clock may show when load_data runs.
CurrentYears == {ThisYear - 1, ThisYear}

Chars_4p4_4 == <<"4", ".", "4", ",", " ", "4">>

GoodRow ==
    [Coordinates |-> Str(Chars_4p4_4),
     Pollutant   |-> "PM2.5",
     Value       |-> Finite(Num(30)),
     City        |-> Str(PARIS \o <<" ", "5">>),
     Location    |-> Str(<<"N", "I", "C", "E">>),
     LastUpdated |-> [valid |-> TRUE, year |-> ThisYear - 1]]

SampleCoordinates ==
    { Str(<<"4", ",", "-", "8">>),
      Str(<<"i", "n", "f">>),
      Str(<<"inf", ",", "4">>),
      Str(<<"4", ",", " ", "-", "inf">>),
      Str(<<"nan", ",", "4">>),
      Str(<<"4", ",", "x">>),
      Str(<<"4", ".", "4">>),
      NotAStr }

SampleRowValues ==
    { Finite(Num(-1)), Finite(Num(0)), Finite(Rat(9999, 10)), Finite(Num(1000)),
      Finite(Num(2000)), Special("nan"), Special("inf"), Special("-inf") }

SampleCities ==
    { NotAStr,
      Str(<<"L", "y", "o", "n">>),
      Str(<<"F", "R", "0", "4">>) }

SampleLocations == { NotAStr, Str(<<"A", "T", "M", "O">>), Str(<<"N", "I", "C", "E">>) }

SampleTimestamps == { [valid |-> TRUE, year |-> ThisYear - 3], [valid |-> FALSE, year |-> 0] }

\* The rows tried: the good row, the rows that differ from it in one column,
\* rows with a non-finite coordinate and a value at the edges of the range,
\* every pair of a City and a Location cell, and a row whose value is text.
SampleRows ==
    {GoodRow}
    \cup {[GoodRow EXCEPT !.Coordinates = c] : c \in SampleCoordinates}
    \cup {[GoodRow EXCEPT !.Pollutant = p] : p \in {"NO2", "C6H6"}}
    \cup {[GoodRow EXCEPT !.Value = v] : v \in SampleRowValues}
    \cup {[GoodRow EXCEPT !.Coordinates = Str(<<"inf", ",", "4">>), !.Value = v] :
              v \in {Finite(Num(0)), Finite(Num(1000))}}
    \cup {[GoodRow EXCEPT !.City = c, !.Location = l] :
              c \in SampleCities, l \in SampleLocations}
    \cup {[GoodRow EXCEPT !.LastUpdated = t] : t \in SampleTimestamps}
    \cup {[GoodRow EXCEPT !.Value = Text]}

Init ==
    /\ raw = <<>>
    /\ load_pc = "file"
    /\ current_year \in CurrentYears
    /\ df = <<>>
    /\ cache = <<>>
    /\ page_pc = "start"
    /\ df_filtered = <<>>
    /\ filters = NoFilters
    /\ download = <<>>
    /\ risk_args = NoRiskArgs
    /\ risk_pc = "args"
    /\ risk_out = NoRiskOut
    /\ city_label = NotAStr
    /\ city_pc = "args"
    /\ city_valid = FALSE
    /\ city_normalized = NotAStr
    /\ tie_up = FALSE
    /\ values_by_pollutant = EmptyDict
    /\ index_pc = "args"
    /\ index = Num(0)
    /\ category = "Bon"
    /\ coord_str = NotAStr
    /\ parse_pc = "args"
    /\ parsed = <<None, None>>

\* The file has one more row.
AppendRow(r) ==
    /\ load_pc = "file"
    /\ Len(raw) < MaxRows
    /\ raw' = Append(raw, r)
    /\ UNCHANGED <<load_pc, current_year, df, cache>>
    /\ UNCHANGED <<index_vars, parse_vars, page_vars, city_vars, risk_vars>>

\* df = load_data()  (line 206): the dataset of the cache when it has one;
\* otherwise the body runs on the file, and its result, when it returns, is
\* stored.  An exception ends the run of the page; nothing is stored.
LoadData ==
    /\ load_pc = "file"
    /\ IF cache # <<>>
       THEN /\ load_pc' = "served"
            /\ df' = cache[1]
            /\ cache' = cache
       ELSE IF load_data_raises(raw)
       THEN /\ load_pc' = "raised"
            /\ df' = df
            /\ cache' = cache
       ELSE /\ load_pc' = "loaded"
            /\ df' = load_data(raw, current_year)
            /\ cache' = <<df'>>
    /\ UNCHANGED <<raw, current_year>>
    /\ UNCHANGED <<index_vars, parse_vars, page_vars, city_vars, risk_vars>>

Next ==
    \/ \E r \in SampleRows : AppendRow(r)
    \/ LoadData

Spec == Init /\ [][Next]_vars

----------------------------------------------------------------------------
(* Runs of the page, one after the other, over a file that may change      *)
(* between two runs.                                                       *)

\* Most rows of the file while the page runs.
MaxFileRows == 3

\* The rows tried: three good rows that differ in pollutant, city and year
\* (one with a city of small letters, one without a city cell), a good row
\* with a station code for a city, a row whose value is text, and a good row
\* of the first year the label of the radio names.
PageSampleRows ==
    { GoodRow,
      [GoodRow EXCEPT !.Pollutant = "NO2",
                      !.City = Str(<<"L", "y", "o", "n">>),
                      !.LastUpdated = [valid |-> TRUE, year |-> ThisYear - 3]],
      [GoodRow EXCEPT !.Pollutant = "PM10", !.City = NotAStr],
      [GoodRow EXCEPT !.City = Str(<<"F", "R", "0", "4">>)],
      [GoodRow EXCEPT !.Value = Text],
      [GoodRow EXCEPT !.LastUpdated = [valid |-> TRUE, year |-> 2024]] }

InitPage ==
    /\ raw = <<>>
    /\ load_pc = "file"
    /\ current_year \in CurrentYears
    /\ df = <<>>
    /\ cache = <<>>
    /\ page_pc = "start"
    /\ df_filtered = <<>>
    /\ filters = NoFilters
    /\ download = <<>>
    /\ risk_args = NoRiskArgs
    /\ risk_pc = "args"
    /\ risk_out = NoRiskOut
    /\ city_label = NotAStr
    /\ city_pc = "args"
    /\ city_valid = FALSE
    /\ city_normalized = NotAStr
    /\ tie_up = FALSE
    /\ values_by_pollutant = EmptyDict
    /\ index_pc = "args"
    /\ index = Num(0)
    /\ category = "Bon"
    /\ coord_str = NotAStr
    /\ parse_pc = "args"
    /\ parsed = <<None, None>>

\* Between two runs the file gets one more row.
EditFile(r) ==
    /\ load_pc = "file"
    /\ Len(raw) < MaxFileRows
    /\ raw' = Append(raw, r)
    /\ UNCHANGED <<load_pc, current_year, df, cache>>
    /\ UNCHANGED <<index_vars, parse_vars, page_vars, city_vars, risk_vars>>

\* Lines 389-425: the widgets of the sidebar that read df.
BuildSidebar ==
    /\ load_pc \in {"loaded", "served"}
    /\ page_pc = "start"
    /\ page_pc' = IF multiselect_raises(df) THEN "raised" ELSE "widgets"
    /\ UNCHANGED <<df_filtered, filters, download>>
    /\ UNCHANGED <<index_vars, parse_vars, load_vars, city_vars, risk_vars>>

\* Selections tried in the two multiselects: none, one option, and for the
\* pollutants the default.
PollutantSelections(d) ==
    {{}, default_pollutants} \cup {{p} : p \in all_pollutants(d)}

CitySelections(d, show_metropoles_only) ==
    {{}} \cup {{c} : c \in available_cities(d, show_metropoles_only)}

\* Lines 428-448, under the values the widgets returned in this run.
ApplyFilters ==
    /\ page_pc = "widgets"
    /\ page_pc' = "filtered"
    /\ \E data_mode \in data_modes, show_metropoles_only \in BOOLEAN :
       \E selected_pollutants \in PollutantSelections(df),
          selected_cities \in CitySelections(df, show_metropoles_only),
          date_range \in date_ranges(df) :
           filters' = [data_mode |-> data_mode,
                       show_metropoles_only |-> show_metropoles_only,
                       selected_pollutants |-> selected_pollutants,
                       selected_cities |-> selected_cities,
                       date_range |-> date_range]
    /\ df_filtered' = filtered_by(df, filters')
    /\ df' = bound_to_df(df, df_filtered')
    /\ UNCHANGED download
    /\ UNCHANGED <<raw, load_pc, current_year, cache>>
    /\ UNCHANGED <<index_vars, parse_vars, city_vars, risk_vars>>

\* Lines 450-1080: the sections of the page read df_filtered (the score
\* board, create_map, calculate_city_pollution_index) and write displays
\* only; the last one hands df_filtered.to_csv(index=False) to the download
\* button (lines 1075-1080).
RenderPage ==
    /\ page_pc = "filtered"
    /\ page_pc' = "done"
    /\ download' = to_csv(df_filtered)
    /\ UNCHANGED <<df_filtered, filters>>
    /\ UNCHANGED <<index_vars, parse_vars, load_vars, city_vars, risk_vars>>

\* An interaction of the user: the script runs again from its first line,
\* with the cache of the process and none of the names the last run bound.
Rerun ==
    /\ load_pc = "raised" \/ page_pc \in {"raised", "done"}
    /\ load_pc' = "file"
    /\ page_pc' = "start"
    /\ df' = <<>>
    /\ df_filtered' = <<>>
    /\ filters' = NoFilters
    /\ download' = <<>>
    /\ UNCHANGED <<raw, current_year, cache>>
    /\ UNCHANGED <<index_vars, parse_vars, city_vars, risk_vars>>

NextPage ==
    \/ \E r \in PageSampleRows : EditFile(r)
    \/ LoadData
    \/ BuildSidebar
    \/ ApplyFilters
    \/ RenderPage
    \/ Rerun

SpecPage == InitPage /\ [][NextPage]_vars

----------------------------------------------------------------------------
(* The classifications and the alert of one mean value, computed with the  *)
(* checkbox of the sensitive populations off and on.                       *)

\* The thresholds of the table and the default ones.
AllThresholds ==
    {POLLUTANT_THRESHOLDS[p].good : p \in DOMAIN POLLUTANT_THRESHOLDS}
    \cup {POLLUTANT_THRESHOLDS[p].moderate : p \in DOMAIN POLLUTANT_THRESHOLDS}
    \cup {default_thresholds.good, default_thresholds.moderate}

\* Values tried: zero, a value above every threshold, and for each threshold
\* the threshold, its product with the factor, and a value between the two.
RiskValues ==
    {Num(0), Num(20000)}
    \cup AllThresholds
    \cup {RatMul(t, SENSITIVE_POPULATION_FACTOR) : t \in AllThresholds}
    \cup {RatMul(t, Rat(21, 25)) : t \in AllThresholds}

InitRisk ==
    /\ risk_args \in [value : RiskValues, pollutant : SampleKeys]
    /\ risk_pc = "args"
    /\ risk_out = NoRiskOut
    /\ raw = <<>>
    /\ load_pc = "file"
    /\ current_year = ThisYear
    /\ df = <<>>
    /\ cache = <<>>
    /\ page_pc = "start"
    /\ df_filtered = <<>>
    /\ filters = NoFilters
    /\ download = <<>>
    /\ city_label = NotAStr
    /\ city_pc = "args"
    /\ city_valid = FALSE
    /\ city_normalized = NotAStr
    /\ tie_up = FALSE
    /\ values_by_pollutant = EmptyDict
    /\ index_pc = "args"
    /\ index = Num(0)
    /\ category = "Bon"
    /\ coord_str = NotAStr
    /\ parse_pc = "args"
    /\ parsed = <<None, None>>

\* The sections of the page that classify the value, run with the checkbox
\* of line 873 as given: the badge and the colour of the map (lines 161-173),
\* the risk level (line 909) and the alert (lines 935-943).
ClassifyValue(sensitive_population) ==
    /\ sensitive_population \notin DOMAIN risk_out
    /\ risk_pc' = "returned"
    /\ risk_out' =
           [s \in DOMAIN risk_out \cup {sensitive_population} |->
               IF s = sensitive_population
               THEN [level |-> get_risk_level(risk_args.value, risk_args.pollutant,
                                              sensitive_population),
                     alert |-> alert_raised(risk_args.value, risk_args.pollutant,
                                            sensitive_population),
                     badge |-> get_quality_badge(risk_args.value, risk_args.pollutant),
                     color |-> get_color_for_value(risk_args.value, risk_args.pollutant)]
               ELSE risk_out[s]]
    /\ UNCHANGED risk_args
    /\ UNCHANGED <<index_vars, parse_vars, load_vars, page_vars, city_vars>>

NextRisk == \E sensitive_population \in BOOLEAN : ClassifyValue(sensitive_population)

SpecRisk == InitRisk /\ [][NextRisk]_vars

----------------------------------------------------------------------------
(* Properties of the index calculator, checked under SpecIndex.            *)

Returned == index_pc = "returned"

\* The seven codes of the reference table, written out.
TableCodes == <<"PM2.5", "PM10", "NO2", "O3", "SO2", "CO", "NO">>

\* The clamped score of code c in dict m times its weight, and its weight,
\* when m has the key c; 0 otherwise.
TermOf(m, c) ==
    IF c \in DOMAIN m
    THEN LET ratio == RatDiv(RatMul(m[c], Num(100)), POLLUTANT_THRESHOLDS[c].moderate)
             clamped == IF RatLess(Num(150), ratio) THEN Num(150) ELSE ratio
         IN  RatMul(clamped, POLLUTANT_THRESHOLDS[c].weight)
    ELSE Num(0)

WeightOf(m, c) == IF c \in DOMAIN m THEN POLLUTANT_THRESHOLDS[c].weight ELSE Num(0)

RECURSIVE SumS(_, _)
SumS(m, i) == IF i = 0 THEN Num(0) ELSE RatAdd(SumS(m, i - 1), TermOf(m, TableCodes[i]))

RECURSIVE SumW(_, _)
SumW(m, i) == IF i = 0 THEN Num(0) ELSE RatAdd(SumW(m, i - 1), WeightOf(m, TableCodes[i]))

S(m) == SumS(m, Len(TableCodes))
W(m) == SumW(m, Len(TableCodes))

\* x is y rounded to one decimal: a multiple of 1/10 at most 1/20 from y.
IsRoundedTo1(x, y) ==
    /\ 10 % x.d = 0
    /\ RatLeq(RatAdd(y, Rat(-1, 20)), x)
    /\ RatLeq(x, RatAdd(y, Rat(1, 20)))

Contributing(m) == {k \in DOMAIN m : k \in {TableCodes[i] : i \in DOMAIN TableCodes}}

AllNonNegative(m) == \A k \in DOMAIN m : m[k].n >= 0

\* C1: whenever some key of the dict is in the reference table (W > 0), the
\* value returned is S / W rounded to one decimal, S and W being summed over
\* exactly the keys common to the dict and the table.
C1_IndexIsRoundedWeightedMean ==
    (Returned /\ RatLess(Num(0), W(values_by_pollutant)))
        => IsRoundedTo1(index, RatDiv(S(values_by_pollutant), W(values_by_pollutant)))

\* Two table pollutants and an unknown one were averaged, and the quotient
\* needed rounding.
C1_Witness ==
    /\ Returned
    /\ Cardinality(Contributing(values_by_pollutant)) = 2
    /\ DOMAIN values_by_pollutant \ Contributing(values_by_pollutant) # {}
    /\ RatDiv(S(values_by_pollutant), W(values_by_pollutant)) # index

ExampleDict == ("PM2.5" :> Num(25)) @@ ("NO2" :> Num(50))

\* C2: the category is Bon exactly below 50, Modere exactly from 50 up to but
\* not including 100, Eleve exactly from 100 on; the dict {PM2.5: 25, NO2: 50}
\* gives index 100.0 and category Eleve.
C2_CategoryPartition ==
    Returned =>
        /\ (category = "Bon") <=> (index.n < 50 * index.d)
        /\ (category = "Modere") <=> (50 * index.d <= index.n /\ index.n < 100 * index.d)
        /\ (category = "Eleve") <=> (index.n >= 100 * index.d)
        /\ (values_by_pollutant = ExampleDict) => (index = Num(100) /\ category = "Eleve")

C2_Witness ==
    /\ Returned
    /\ values_by_pollutant = ExampleDict
    /\ category = "Eleve"

\* C3 (as claimed): when no key of the dict is in the reference table, the
\* value returned differs from the value returned for a genuine zero score,
\* the score of a table pollutant measured at 0.
C3_NoDataDistinctFromZero ==
    (Returned /\ Contributing(values_by_pollutant) = {})
        => \A p \in DOMAIN POLLUTANT_THRESHOLDS :
               index # calculate_pollution_index(p :> Num(0))

\* C4: for the empty dict and for every dict none of whose keys is in the
\* reference table, the value returned is 0 and its category is Bon.
C4_NoOverlapGivesZeroGood ==
    (Returned /\ Contributing(values_by_pollutant) = {})
        => (index = Num(0) /\ category = "Bon")

\* A non-empty dict whose only key is unknown to the table was scored.
C4_Witness ==
    /\ Returned
    /\ values_by_pollutant # EmptyDict
    /\ Contributing(values_by_pollutant) = {}
    /\ \E k \in DOMAIN values_by_pollutant : values_by_pollutant[k] = Num(20000)

\* C5: when every value of the dict is >= 0, the value returned lies in
\* [0, 150].
C5_IndexWithinCap ==
    (Returned /\ AllNonNegative(values_by_pollutant))
        => (0 <= index.n /\ index.n <= 150 * index.d)

\* A value far above the cap was scored and the index is exactly 150.
C5_Witness ==
    /\ Returned
    /\ \E k \in Contributing(values_by_pollutant) : values_by_pollutant[k] = Num(20000)
    /\ index = Num(150)

\* C6 (as claimed by the docstring): the value returned lies in [0, 100] for
\* dicts of mean values (which are >= 0).
C6_IndexAtMost100 ==
    (Returned /\ AllNonNegative(values_by_pollutant))
        => (0 <= index.n /\ index.n <= 100 * index.d)

Restrict(m, keys) == [k \in keys |-> m[k]]

Extend(m, key, value) == [k \in DOMAIN m \cup {key} |-> IF k = key THEN value ELSE m[k]]

\* C7: the value returned depends only on the items whose key is in the
\* table: dropping the other items, or adding one, leaves it
\* unchanged; and a dict with a single table pollutant p at value v gives
\* min(v / moderate * 100, 150) rounded to one decimal.
C7_MissingPollutantsExcluded ==
    Returned =>
        /\ calculate_pollution_index(
               Restrict(values_by_pollutant, Contributing(values_by_pollutant))) = index
        /\ \A u \in UnknownPollutants \ DOMAIN values_by_pollutant, v \in SampleValues :
               calculate_pollution_index(Extend(values_by_pollutant, u, v)) = index
        /\ \A p \in Contributing(values_by_pollutant) :
               Contributing(values_by_pollutant) = {p} =>
                   LET ratio == RatDiv(RatMul(values_by_pollutant[p], Num(100)),
                                       POLLUTANT_THRESHOLDS[p].moderate)
                   IN  IsRoundedTo1(index,
                                    IF RatLess(Num(150), ratio) THEN Num(150) ELSE ratio)

\* A single table pollutant was scored next to an unknown one; the result is
\* its own score, not an average diluted by the six missing pollutants.
C7_Witness ==
    /\ Returned
    /\ Contributing(values_by_pollutant) = {"PM2.5"}
    /\ DOMAIN values_by_pollutant # {"PM2.5"}
    /\ values_by_pollutant["PM2.5"] = Num(25)
    /\ index = Num(100)

----------------------------------------------------------------------------
(* Properties of parse_coords, checked under SpecParse.                    *)

Parsed == parse_pc = "returned"

CommaPositions(s) == {i \in DOMAIN s : s[i] = ","}

\* The comma-separated parts of s as the pairs <<a, b>> of the positions that
\* delimit them: consecutive members of {0} \cup commas \cup {Len(s) + 1}.
PartBounds(s) ==
    LET cuts == {0} \cup CommaPositions(s) \cup {Len(s) + 1}
    IN  {ab \in cuts \X cuts :
            ab[1] < ab[2] /\ \A c \in cuts : ~(ab[1] < c /\ c < ab[2])}

PartText(s, ab) == SubSeq(s, ab[1] + 1, ab[2] - 1)

\* The first part of s, and the second one when s has a comma.
FirstPart(s) == PartText(s, CHOOSE ab \in PartBounds(s) : ab[1] = 0)

SecondPart(s) ==
    LET first == CHOOSE ab \in PartBounds(s) : ab[1] = 0
    IN  PartText(s, CHOOSE ab \in PartBounds(s) : ab[1] = first[2])

\* s reads "lat, lon": one comma, a numeral on each side of it.
IsLatLon(s) ==
    /\ Cardinality(CommaPositions(s)) = 1
    /\ \A ab \in PartBounds(s) : float_accepts(PartText(s, ab))

\* C9 (as claimed): a str "lat, lon" with two numeric parts gives the pair of
\* the parsed numbers; an input that is not a str, has no comma (so fewer
\* than two parts) or has a non-numeric part gives (None, None).
C9_ParseCoordsAsClaimed ==
    Parsed =>
        /\ (coord_str.type = "str" /\ IsLatLon(coord_str.chars))
               => parsed = <<float(FirstPart(coord_str.chars)),
                             float(SecondPart(coord_str.chars))>>
        /\ (\/ coord_str.type # "str"
            \/ CommaPositions(coord_str.chars) = {}
            \/ \E ab \in PartBounds(coord_str.chars) :
                   ~float_accepts(PartText(coord_str.chars, ab)))
               => parsed = <<None, None>>

\* C9 (amended): only the first two parts count.  A str with a comma whose
\* first and second parts are numeric gives the pair of those two numbers,
\* whatever follows a second comma; an input that is not a str, has no comma,
\* or whose first or second part is non-numeric gives (None, None).
C9_ParseCoordsFirstTwoParts ==
    Parsed =>
        LET isNull == \/ coord_str.type # "str"
                      \/ CommaPositions(coord_str.chars) = {}
                      \/ ~float_accepts(FirstPart(coord_str.chars))
                      \/ ~float_accepts(SecondPart(coord_str.chars))
        IN  /\ isNull => parsed = <<None, None>>
            /\ ~isNull => parsed = <<float(FirstPart(coord_str.chars)),
                                     float(SecondPart(coord_str.chars))>>

\* A str "lat, lon" with a blank after the comma and two different numbers
\* was parsed.
C9_Witness ==
    /\ Parsed
    /\ coord_str.type = "str"
    /\ IsLatLon(coord_str.chars)
    /\ \E i \in DOMAIN coord_str.chars : coord_str.chars[i] = " "
    /\ parsed[1].kind = "finite"
    /\ parsed[2].kind = "finite"
    /\ parsed[1] # parsed[2]

----------------------------------------------------------------------------
(* Properties of load_data, checked under Spec.                            *)

Loaded == load_pc = "loaded"

\* The labels of the rows of the cleaned dataset.
KeptLabels == {df[i].Index : i \in DOMAIN df}

\* The value of a raw row is negative, >= 1000 or missing.
BadValue(v) ==
    \/ v.kind \in {"nan", "None", "inf", "-inf"}
    \/ v.kind = "finite" /\ (v.val.n < 0 \/ v.val.n >= 1000 * v.val.d)

\* C8: every row of the cleaned dataset has 0 <= Value < 1000, and no raw row
\* whose value is negative, >= 1000 or missing is in the cleaned dataset.
C8_CleanedValuesInRange ==
    Loaded =>
        /\ \A i \in DOMAIN df :
               /\ df[i].Value.kind = "finite"
               /\ 0 <= df[i].Value.val.n
               /\ df[i].Value.val.n < 1000 * df[i].Value.val.d
        /\ \A j \in DOMAIN raw : BadValue(raw[j].Value) => (j - 1) \notin KeptLabels

\* A file with a row at 999.9 and a row at 1000 was loaded: the first is
\* kept, the second is not.
C8_Witness ==
    /\ Loaded
    /\ Len(raw) = 2
    /\ raw[1].Value = Finite(Rat(9999, 10))
    /\ raw[2].Value = Finite(Num(1000))
    /\ KeptLabels = {0}

\* C10 (as claimed): every row of the cleaned dataset has a finite latitude
\* and a finite longitude.
C10_CleanedCoordinatesFinite ==
    Loaded =>
        \A i \in DOMAIN df :
            df[i].Latitude.kind = "finite" /\ df[i].Longitude.kind = "finite"


\* The row of the file a cleaned row comes from: read_csv labelled it.
RawOf(i) == raw[df[i].Index + 1]

\* The city of a raw row after line 87.
Backfilled(r) == IF isna(r.City) THEN r.Location ELSE r.City

\* The raw row passes the filters that do not look at the city: lines 81-85.
PassesBeforeCity(r) ==
    /\ r.Pollutant \in air_pollutants
    /\ value_in_range(r)
    /\ has_required_fields(add_coords(r))

\* The cleaning steps of lines 81-91 applied to a dataset that has the
\* columns of the cleaned one.
reapply_cleaning(rows) ==
    LET known == SelectSeq(rows, known_pollutant)
        ranged == SelectSeq(known, value_in_range)
        complete == SelectSeq(ranged, has_required_fields)
        filled == [i \in DOMAIN complete |-> fill_city(complete[i])]
        valid == SelectSeq(filled, valid_city)
    IN  [i \in DOMAIN valid |->
            [valid[i] EXCEPT !.City_Normalized = normalize_city(valid[i].City)]]

\* C14: the cleaning steps applied to the cleaned dataset remove no row and
\* change no field, and normalize_city applied to its own result returns it,
\* for every city and location label of the file.
C14_CleaningIdempotent ==
    Loaded =>
        /\ reapply_cleaning(df) = df
        /\ \A j \in DOMAIN raw : \A x \in {raw[j].City, raw[j].Location} :
               normalize_city(normalize_city(x)) = normalize_city(x)

\* A cleaned row whose city was collapsed to a root is left as it is.
C14_Witness ==
    /\ Loaded
    /\ \E i \in DOMAIN df : df[i].City_Normalized # df[i].City
    /\ reapply_cleaning(df) = df

\* C15: a cleaned row has the location label as its city when the city cell
\* of its raw row is missing and the city cell itself otherwise, and a raw
\* row with a missing city, a valid location label and nothing else wrong is
\* kept.
C15_CityBackfilledFromLocation ==
    Loaded =>
        /\ \A i \in DOMAIN df :
               df[i].City = IF isna(RawOf(i).City) THEN RawOf(i).Location
                            ELSE RawOf(i).City
        /\ \A j \in DOMAIN raw :
               (/\ isna(raw[j].City)
                /\ is_valid_city(raw[j].Location)
                /\ PassesBeforeCity(raw[j])) => (j - 1) \in KeptLabels

\* A row without a city is in the cleaned dataset under its location label.
C15_Witness ==
    /\ Loaded
    /\ \E i \in DOMAIN df :
           /\ isna(RawOf(i).City)
           /\ ~isna(df[i].City)
           /\ df[i].City = RawOf(i).Location

\* C16: no cleaned row has a missing date or a missing year.
C16_NoCleanedRowWithoutDate ==
    Loaded =>
        \A i \in DOMAIN df : df[i].Date.valid /\ df[i].Year.kind = "finite"

\* C18: the rows kept are those that pass the pollutant, value and coordinate
\* filters and whose city label after the backfill is valid; every cleaned
\* row has one of the seven pollutant codes, a backfilled city label that
\* is_valid_city accepts, and the canonical name of that label.
C18_BackfillBeforeValidity ==
    Loaded =>
        /\ \A j \in DOMAIN raw :
               (j - 1) \in KeptLabels <=>
                   (PassesBeforeCity(raw[j]) /\ is_valid_city(Backfilled(raw[j])))
        /\ \A i \in DOMAIN df :
               /\ df[i].Pollutant \in air_pollutants
               /\ df[i].City = Backfilled(RawOf(i))
               /\ is_valid_city(df[i].City)
               /\ df[i].City_Normalized = normalize_city(df[i].City)

\* One row was kept on its backfilled label and one, fine but for its city
\* label, was dropped.
C18_Witness ==
    /\ Loaded
    /\ \E i \in DOMAIN df : isna(RawOf(i).City) /\ is_valid_city(df[i].City)
    /\ \E j \in DOMAIN raw :
           /\ PassesBeforeCity(raw[j])
           /\ ~is_valid_city(Backfilled(raw[j]))
           /\ (j - 1) \notin KeptLabels

----------------------------------------------------------------------------
(* Properties of is_valid_city and normalize_city, checked under SpecCity. *)

Validated == city_pc \in {"validated", "returned"}
Normalized == city_pc = "returned"

Roots == {PARIS, MARSEILLE, LYON}

FRThenDigit(s) == Len(s) > 2 /\ s[1] = "F" /\ s[2] = "R" /\ IsDigit(s[3])

TwoLettersThenDigit(s) ==
    Len(s) > 2 /\ IsUpperLetter(s[1]) /\ IsUpperLetter(s[2]) /\ IsDigit(s[3])

OperatorPrefix(s) == StartsWith(s, <<"A", "T", "M", "O">>)
NetworkIdentifier(s) == Contains(s, <<"N", "E", "T", "-">>)

\* C11 as stated: is_valid_city is false for the missing and the empty label,
\* for a label that starts with any two capital letters and a digit, for one
\* that starts with ATMO and for one that contains NET-, and true for every
\* other label.
C11_RejectsAnyCountryPrefix ==
    Validated =>
        city_valid =
            ~(\/ isna(city_label)
              \/ city_label.chars = <<>>
              \/ TwoLettersThenDigit(city_label.chars)
              \/ OperatorPrefix(city_label.chars)
              \/ NetworkIdentifier(city_label.chars))

\* C11 amended: the only country prefix rejected is FR: is_valid_city is false
\* for the missing and the empty label, for a label that starts with FR and a
\* digit, for one that starts with ATMO and for one that contains NET-, and
\* true for every other label.
C11_RejectsFRPrefixOnly ==
    Validated =>
        city_valid =
            ~(\/ isna(city_label)
              \/ city_label.chars = <<>>
              \/ FRThenDigit(city_label.chars)
              \/ OperatorPrefix(city_label.chars)
              \/ NetworkIdentifier(city_label.chars))

\* A label that starts with FR and a digit has been rejected.
C11_Witness ==
    /\ Validated
    /\ ~isna(city_label)
    /\ FRThenDigit(city_label.chars)
    /\ ~OperatorPrefix(city_label.chars)
    /\ ~NetworkIdentifier(city_label.chars)
    /\ city_valid = FALSE

CollapseRule(u, root) ==
    /\ Contains(u, root)
    /\ Contains(u, ARRONDISSEMENT) \/ StartsWith(u, root \o <<" ">>)

\* C12 as stated: normalize_city returns a root name when the uppercased
\* label meets the rule of that root, and the uppercased label for every
\* other label.
C12_OtherLabelsUppercased ==
    (Normalized /\ ~isna(city_label)) =>
        LET u == upper(city_label.chars)
        IN  IF \E root \in Roots : CollapseRule(u, root)
            THEN \E root \in Roots :
                     CollapseRule(u, root) /\ city_normalized = Str(root)
            ELSE city_normalized = Str(u)

----------------------------------------------------------------------------
(* Properties of the runs of the page, checked under SpecPage.             *)

\* C17: load_data never raises and no later step of the run of the page
\* raises.
C17_RunNeverRaises == load_pc # "raised" /\ page_pc # "raised"

\* C19: the dataset load_data returns is the file as it is now, cleaned.
C19_CleanedDatasetOfCurrentFile ==
    load_pc \in {"loaded", "served"} =>
        (~load_data_raises(raw) /\ df = load_data(raw, current_year))

\* C20: once load_data has returned, no step changes the cleaned dataset:
\* df stays the dataset of the cache through the filters and the rendering
\* and over later runs, the cached dataset itself never changes, and every
\* row of the filtered dataset is a row of the cleaned one.
C20_FiltersLeaveCleanedDataset ==
    [][/\ cache # <<>> => cache' = cache
       /\ (cache' # <<>> /\ load_pc' \in {"loaded", "served"}) => df' = cache'[1]
       /\ \A i \in DOMAIN df_filtered' :
              \E j \in DOMAIN df' : df_filtered'[i] = df'[j]]_vars

\* The filters have removed a row and the cleaned dataset still has it.
C20_Witness ==
    /\ page_pc = "filtered"
    /\ Len(df_filtered) < Len(df)
    /\ df_filtered # <<>>
    /\ df = cache[1]

\* C21: the export of a run whose load_data read the file is the same
\* whatever the year of the clock at the load: it is what the same file and
\* the same values of the widgets give under every year.
C21_DownloadIndependentOfClock ==
    (page_pc = "done" /\ load_pc = "loaded") =>
        \A y \in CurrentYears :
            download = to_csv(filtered_by(load_data(raw, y), filters))

\* The rows of d, as a set.
RowsOf(d) == {d[i] : i \in DOMAIN d}

\* The rows the filters other than the data mode leave.
UnderOtherFilters == RowsOf(filtered_by(df, [filters EXCEPT !.data_mode = "Toutes"]))

\* C23: under the mode labelled 2024-2025 the filtered rows are the rows the
\* other filters leave whose year is 2024 or 2025, and under the mode
\* labelled <2024 those whose year is before 2024.
C23_ModesMatchTheirLabels ==
    page_pc \in {"filtered", "done"} =>
        /\ (filters.data_mode = "Recentes (2024-2025)") =>
               (RowsOf(df_filtered) =
                   {r \in UnderOtherFilters :
                       r.Date.valid /\ r.Date.year \in RecentLabelYears})
        /\ (filters.data_mode = "Historiques (<2024)") =>
               (RowsOf(df_filtered) =
                   {r \in UnderOtherFilters :
                       r.Date.valid /\ \A y \in RecentLabelYears : r.Date.year < y})

----------------------------------------------------------------------------
(* Recency, checked under Spec.                                            *)

RecentMode == RowsOf(filtered_by(df, [NoFilters EXCEPT !.data_mode = "Recentes (2024-2025)"]))
HistoricalMode == RowsOf(filtered_by(df, [NoFilters EXCEPT !.data_mode = "Historiques (<2024)"]))

\* C22: a cleaned row is recent exactly when its year is at least the year
\* of the load less RECENT_DATA_YEARS_BACK, its age is the year of the load
\* less its year, and every cleaned row is in exactly one of the recent and
\* the historical mode.
C22_RecencyFromLoadYear ==
    Loaded =>
        /\ \A i \in DOMAIN df :
               /\ df[i].Is_Recent =
                      (/\ df[i].Date.valid
                       /\ df[i].Date.year >= current_year - RECENT_DATA_YEARS_BACK)
               /\ df[i].Date.valid =>
                      df[i].Data_Age = Finite(Num(current_year - df[i].Date.year))
        /\ RecentMode \cup HistoricalMode = RowsOf(df)
        /\ RecentMode \cap HistoricalMode = {}

\* The cleaned dataset has a row of the year at the limit, which is recent,
\* and an older row, which is not.
C22_Witness ==
    /\ Loaded
    /\ \E i \in DOMAIN df :
           /\ df[i].Date.year = current_year - RECENT_DATA_YEARS_BACK
           /\ df[i].Is_Recent
    /\ \E i \in DOMAIN df : df[i].Date.valid /\ ~df[i].Is_Recent

----------------------------------------------------------------------------
(* Properties of the classifications, checked under SpecRisk.              *)

Severity ==
    [l \in {"Faible", "Bon", "green", "Modere", "orange", "Eleve", "red"} |->
        IF l \in {"Faible", "Bon", "green"} THEN 1
        ELSE IF l \in {"Modere", "orange"} THEN 2
        ELSE 3]

\* The bucket of a value under the thresholds of its pollutant as they are.
Bucket(value, pollutant) ==
    IF RatLess(value, thresholds_of(pollutant).good) THEN 1
    ELSE IF RatLess(value, thresholds_of(pollutant).moderate) THEN 2
    ELSE 3

\* C24: the risk level with the option on is at least as severe as with it
\* off, an alert raised with the option off is raised with it on, and with
\* the option off the risk level, the badge and the colour are the bucket
\* of the value under the thresholds of the pollutant.
C24_SensitiveNeverLowers ==
    /\ DOMAIN risk_out = BOOLEAN =>
           /\ Severity[risk_out[TRUE].level] >= Severity[risk_out[FALSE].level]
           /\ risk_out[FALSE].alert => risk_out[TRUE].alert
    /\ FALSE \in DOMAIN risk_out =>
           /\ Severity[risk_out[FALSE].level] = Bucket(risk_args.value, risk_args.pollutant)
           /\ Severity[risk_out[FALSE].badge] = Bucket(risk_args.value, risk_args.pollutant)
           /\ Severity[risk_out[FALSE].color] = Bucket(risk_args.value, risk_args.pollutant)

\* A value is more severe with the option on than with it off, and as a
\* mean it raises an alert only with the option on.
C24_Witness ==
    /\ DOMAIN risk_out = BOOLEAN
    /\ Severity[risk_out[TRUE].level] > Severity[risk_out[FALSE].level]
    /\ risk_out[TRUE].alert
    /\ ~risk_out[FALSE].alert

====
